---- MODULE Spec2Model ----
(***************************************************************************)
(* Multi-device WhatsApp session manager: the Manager (device map behind   *)
(* one RWMutex), the Device Client (connection state, QR pairing wait) and *)
(* the protocol library's event dispatcher that calls back into the        *)
(* client.                                                                 *)
(***************************************************************************)
EXTENDS Integers, FiniteSets, Sequences, TLC

\* ---------------------------------------------------------------- bounds
NumDevices == 2      \* device names known to the callers
NumCallers == 2      \* concurrent HTTP callers (goroutines)
MaxInst == 2         \* Client objects constructed over a run
MaxQR == 2           \* QR events the library issues per client
MaxCodes == 2        \* codes carried by one QR event (evt.Codes)

\* ------------------------------------------------------ program constants
QRTimeoutSecs == 30  \* QRCodeResponse.Timeout
maxRetries == 3      \* getGroupInfoWithRetry
EnvDefaultConcurrency == 10  \* MaxConcurrency when the environment sets none
DefaultMaxConcurrency == 10  \* the limit NewClient takes for MaxConcurrency 0

MaxJidLen == 4       \* length of a recipient identifier, in tokens
NumProcs == 3        \* message processors that can be registered
MaxPrio == 3         \* priorities 1..MaxPrio
MaxConfigured == 2   \* values 0..MaxConfigured of WHATSAPP_MAX_CONCURRENCY
MaxMsgs == 12        \* messages of one client whose goroutines have not ended
NumMsgs == 3         \* Message events followed one by one
NumGroups == 2       \* groups the account can have joined

Procs == 1..NumProcs
Names == 1..NumDevices
Callers == 1..NumCallers
Insts == 1..MaxInst
NoInst == 0          \* name not in the map / nil client
NoCode == 0          \* latestQR == ""

\* code number j of the k-th QR event of a client: all distinct, never NoCode
Code(k, j) == k * (MaxCodes + 1) + j

ErrorKinds == {"Validation", "NotFound", "Conflict", "Connection",
               "WhatsApp", "Database", "Internal"}

VARIABLES
  \* Manager
  clients,      \* m.clients: name -> Client instance (NoInst = absent)
  mu,           \* m.mu: 0 = free, t = write-locked by caller t
  nextId,       \* identity of the next Client object NewClient allocates
  storeFile,    \* <storesDir>/<name>_store.db: "none" | "unpaired" | "paired"
  \* Client (one per constructed instance)
  devName,      \* c.deviceName (0 = instance not constructed yet)
  isConnected,  \* c.isConnected
  sockOpen,     \* c.client.IsConnected() of the library
  hasID,        \* c.client.Store.ID != nil
  latestQR,     \* c.latestQR
  qrMu,         \* c.qrMu: 0 = free, t = held by caller t
  ctxDone,      \* c.ctx cancelled
  qrSeq,        \* QR events the library has issued to this client
  disp,         \* the library's event dispatcher of this client
  \* callers
  pc,           \* position of each caller
  arg,          \* device name argument of the manager call in progress (0: none)
  cur,          \* Client instance of the client call in progress
  cancelled,    \* the caller's ctx is cancelled
  qch,          \* the QR channel of the caller's GetQRCode call
  ret,          \* what the step just taken handed back to its caller (NoRet: nothing)
  \* history
  handed,       \* per name: instances CreateClient returned since the last removal
  streak,       \* per client: GetQRCode calls that returned a code in a row, nothing
                \* else having touched the client in between (counted up to 2)
  \* time
  qrStale,      \* per client: the code in c.latestQR was issued more than its
                \* validity (about 30 seconds) ago
  \* LoadExistingDevices
  load,         \* per caller: the files still to scan, the files found by the
                \* scan, the names CreateClient returned a client for, the names
                \* it failed for
  \* device records (DeviceMongoRepository) and DeleteDeviceUseCase
  recStatus,    \* per record id: "none" (no such document) or the status field;
                \* the record of id n is the one of the device named n
  del,          \* per caller: the record its DeleteDevice call found and the
                \* client instance its RemoveClient took out of the map
  \* inbound messages of the Device Clients
  maxConc,      \* config.WhatsApp.MaxConcurrency, handed to every NewClient
  semWait,      \* per client: goroutines of handleMessage blocked at c.sem <-
  sem,          \* per client: the elements in the channel c.sem
  running,      \* per client: goroutines past c.sem <-, in OnMessage
  arrivals,     \* Message events handed to handleMessage so far
  msgSt,        \* per Message event, numbered in arrival order: its client,
                \* what it carries and how far its handling has come
  onMessage,    \* the OnMessage calls made, in order: <<device name, message>>
  gg,           \* the GetGroups call that is followed step by step
  \* ProcessorRegistry
  processors,   \* r.processors: sequence of processors
  prio,         \* Priority() of each processor
  registered,   \* the processors handed to Register so far
  moved,        \* the last Register call had to move its processor forward
  procIn,       \* the last Process call: which processors claim the message (can)
                \* and which of them fail on it (fail)
  procLog,      \* processors the last Process call invoked, in order of invocation
  procRet       \* what the last Process call returned: 0 = nil, p = the error of p

vars == <<clients, mu, nextId, storeFile, devName, isConnected, sockOpen, hasID,
          latestQR, qrMu, ctxDone, qrSeq, disp, pc, arg, cur, cancelled, qch,
          ret, handed, streak, qrStale, load, recStatus, del,
          maxConc, semWait, sem, running, arrivals, msgSt, onMessage, gg,
          processors, prio, registered, moved,
          procIn, procLog, procRet>>

mgrVars == <<clients, mu, nextId, storeFile, handed>>
cliVars == <<devName, isConnected, sockOpen, hasID, latestQR, qrMu, ctxDone,
             qrSeq, disp, streak>>

\* state outside the manager, the clients and their callers
regVars == <<processors, prio, registered, moved, procIn, procLog, procRet>>
delVars == <<recStatus, del>>
semVars == <<maxConc, semWait, sem, running>>
msgVars == <<arrivals, msgSt, onMessage>>
grpVars == <<gg>>
ext2Vars == <<load, delVars, semVars, msgVars, grpVars, regVars>>
extVars == <<qrStale, ext2Vars>>

NoLoad == [scan |-> {}, files |-> {}, made |-> {}, failed |-> {}]

NoDel == [id |-> 0, removed |-> NoInst]

NoProcIn == [called |-> FALSE, can |-> {}, fail |-> {}]

\* initial value of that state: NewProcessorRegistry makes an empty list
RegInit ==
  /\ processors = <<>>
  /\ registered = {}
  /\ moved = FALSE
  /\ procIn = NoProcIn
  /\ procLog = <<>>
  /\ procRet = 0

Msgs == 1..NumMsgs
Groups == 1..NumGroups

\* no GetGroups call is under way
NoGG == [st |-> "idle", inst |-> NoInst, kind |-> "none", joined |-> {},
         todo |-> {}, i |-> 0, tries |-> [g \in Groups |-> 0],
         okAt |-> [g \in Groups |-> 0], got |-> {}, slept |-> 0]


NoMsg == [inst |-> NoInst, fromMe |-> FALSE, hasText |-> FALSE, st |-> "none"]

\* no message has come in yet
SemInit ==
  /\ semWait = [i \in Insts |-> 0]
  /\ sem = [i \in Insts |-> 0]
  /\ running = [i \in Insts |-> 0]
  /\ arrivals = 0
  /\ msgSt = [m \in Msgs |-> NoMsg]
  /\ onMessage = <<>>
  /\ gg = NoGG

ExtBase ==
  /\ qrStale = [i \in Insts |-> FALSE]
  /\ load = [t \in Callers |-> NoLoad]
  /\ recStatus = [n \in Names |-> "none"]
  /\ del = [t \in Callers |-> NoDel]
  /\ SemInit
  /\ RegInit
  /\ prio = [p \in Procs |-> 1]

\* WHATSAPP_MAX_CONCURRENCY is not set
ExtInit == ExtBase /\ maxConc = EnvDefaultConcurrency

\* ------------------------------------------------------------ value shapes
\* what a call hands back: the caller, the operation, the kind of the result
\* ("ok", one of ErrorKinds, "bare" for an error that is no AppError, "panic"
\* for a panic leaving the call), and the details the operation fills in; to
\* is the recipient the call was given, lib the calls it made to the protocol
\* library, in order; files, made and failed are the store files a scan found
\* and the names it got and did not get a client for; client is the kind of
\* the result a use case got from the Device Client operation it called
R(t, op, kind) ==
  [by |-> t, op |-> op, kind |-> kind, name |-> 0, inst |-> NoInst,
   code |-> NoCode, timeout |-> 0, panics |-> {}, msg |-> "",
   to |-> <<>>, lib |-> <<>>, files |-> {}, made |-> {}, failed |-> {},
   client |-> "none"]

NoRet == R(0, "none", "none")

DispIdle == [stage |-> "idle", evt |-> "none", first |-> NoCode, last |-> NoCode]

NilChan == [st |-> "nil", ev |-> "", code |-> NoCode]
OpenChan == [st |-> "open", ev |-> "", code |-> NoCode]
ClosedChan == [st |-> "closed", ev |-> "", code |-> NoCode]
ChanItem(ev, code) == [st |-> "item", ev |-> ev, code |-> code]

\* ------------------------------------------------------------------- Init
\* NewManager: an empty map; the stores directory holds the session files of
\* earlier runs
MgrInit ==
  /\ clients = [n \in Names |-> NoInst]
  /\ mu = 0
  /\ nextId = 1
  /\ storeFile \in [Names -> {"none", "paired"}]
  /\ devName = [i \in Insts |-> 0]
  /\ isConnected = [i \in Insts |-> FALSE]
  /\ sockOpen = [i \in Insts |-> FALSE]
  /\ hasID = [i \in Insts |-> FALSE]
  /\ latestQR = [i \in Insts |-> NoCode]
  /\ qrMu = [i \in Insts |-> 0]
  /\ ctxDone = [i \in Insts |-> FALSE]
  /\ qrSeq = [i \in Insts |-> 0]
  /\ disp = [i \in Insts |-> DispIdle]
  /\ pc = [t \in Callers |-> "idle"]
  /\ arg = [t \in Callers |-> 0]
  /\ cur = [t \in Callers |-> NoInst]
  /\ cancelled = [t \in Callers |-> FALSE]
  /\ qch = [t \in Callers |-> NilChan]
  /\ ret = NoRet
  /\ handed = [n \in Names |-> {}]
  /\ streak = [i \in Insts |-> 0]

Init == MgrInit /\ ExtInit

\* ---------------------------------------------------------- read-only API
ListClients == {n \in Names : clients[n] # NoInst}
GetClientCount == Cardinality(ListClients)
GetClient(n) == clients[n]

\* i is the client a caller gets from GetClient under the read lock
Held(i) == mu = 0 /\ devName[i] # 0 /\ GetClient(devName[i]) = i

\* i is a Client object somebody can still reach: the map or a call in progress
Live(i) == devName[i] # 0 /\ (clients[devName[i]] = i \/ \E t \in Callers : cur[t] = i)

\* ------------------------------------------------- Client.Disconnect pieces
\* What Client.Disconnect hands to its caller when the library's teardown
\* panics (libPanics) or not: the deferred recover() swallows the panic and the
\* function then returns the zero value of its unnamed error result.
DisconnectReturns_NoRecover(libPanics) == IF libPanics THEN "panic" ELSE "nil"

DisconnectReturns(libPanics) == "nil"

\* State left behind by Client.Disconnect on a set of clients.  D: clients whose
\* teardown ran to the end (library disconnected, c.cancel(), isConnected =
\* false).  S: clients whose library teardown panicked after the socket was
\* already closed; a panic skips c.cancel() and the isConnected update.
TearDown_LibOnly(D, S) ==
  /\ sockOpen' = [i \in Insts |-> IF i \in D \cup S THEN FALSE ELSE sockOpen[i]]
  /\ UNCHANGED <<ctxDone, isConnected>>
  /\ streak' = [i \in Insts |-> IF i \in D \cup S THEN 0 ELSE streak[i]]

TearDown(D, S) ==
  /\ sockOpen' = [i \in Insts |-> IF i \in D \cup S THEN FALSE ELSE sockOpen[i]]
  /\ ctxDone' = [i \in Insts |-> IF i \in D THEN TRUE ELSE ctxDone[i]]
  /\ isConnected' = [i \in Insts |-> IF i \in D THEN FALSE ELSE isConnected[i]]
  /\ streak' = [i \in Insts |-> IF i \in D \cup S THEN 0 ELSE streak[i]]

\* ------------------------------------------------------------ Manager calls
\* m.mu.Lock() at the head of CreateClient / RemoveClient / DisconnectAll
CreateClientLock(t, n) ==
  /\ pc[t] = "idle" /\ mu = 0
  /\ mu' = t
  /\ pc' = [pc EXCEPT ![t] = "cc_body"]
  /\ arg' = [arg EXCEPT ![t] = n]
  /\ ret' = NoRet
  /\ UNCHANGED <<clients, nextId, storeFile, handed, cliVars, cur, cancelled, qch>>
  /\ UNCHANGED extVars

RemoveClientLock(t, n) ==
  /\ pc[t] = "idle" /\ mu = 0
  /\ mu' = t
  /\ pc' = [pc EXCEPT ![t] = "rm_body"]
  /\ arg' = [arg EXCEPT ![t] = n]
  /\ ret' = NoRet
  /\ UNCHANGED <<clients, nextId, storeFile, handed, cliVars, cur, cancelled, qch>>
  /\ UNCHANGED extVars

DisconnectAllLock(t) ==
  /\ pc[t] = "idle" /\ mu = 0
  /\ mu' = t
  /\ pc' = [pc EXCEPT ![t] = "da_body"]
  /\ ret' = NoRet
  /\ UNCHANGED <<clients, nextId, storeFile, handed, cliVars, arg, cur, cancelled, qch>>
  /\ UNCHANGED extVars

\* The existence check of CreateClient
ClientExists_Never(n) == FALSE

ClientExists(n) == clients[n] # NoInst

\* CreateClient under the lock: existing client, or NewClient (which may fail on
\* the SQLite store) and the store into the map; the deferred Unlock.
CreateClientBody(t) ==
  /\ pc[t] = "cc_body" /\ mu = t
  /\ LET n == arg[t] IN
     IF ClientExists(n)
     THEN /\ ret' = [R(t, "CreateClient", "ok") EXCEPT
                       !.name = n, !.inst = clients[n], !.msg = "exists"]
          /\ handed' = [handed EXCEPT ![n] = @ \cup {clients[n]}]
          /\ UNCHANGED <<clients, nextId, storeFile, devName, hasID>>
     ELSE \E storeOk \in BOOLEAN :
          IF storeOk
          THEN /\ nextId <= MaxInst
               /\ clients' = [clients EXCEPT ![n] = nextId]
               /\ devName' = [devName EXCEPT ![nextId] = n]
               /\ hasID' = [hasID EXCEPT ![nextId] = (storeFile[n] = "paired")]
               /\ storeFile' = [storeFile EXCEPT ![n] = IF @ = "none" THEN "unpaired" ELSE @]
               /\ nextId' = nextId + 1
               /\ handed' = [handed EXCEPT ![n] = @ \cup {nextId}]
               /\ ret' = [R(t, "CreateClient", "ok") EXCEPT !.name = n, !.inst = nextId]
          ELSE /\ ret' = [R(t, "CreateClient", "Database") EXCEPT !.name = n]
               /\ UNCHANGED <<clients, nextId, storeFile, devName, hasID, handed>>
  /\ mu' = 0
  /\ pc' = [pc EXCEPT ![t] = "idle"]
  /\ arg' = [arg EXCEPT ![t] = 0]
  /\ UNCHANGED <<isConnected, sockOpen, latestQR, qrMu, ctxDone, qrSeq, disp,
                 streak, cur, cancelled, qch>>
  /\ UNCHANGED extVars

\* RemoveClient of a name that is not in the map: NotFound, nothing touched
RemoveMissing_Purge(t, n) ==
  /\ ret' = [R(t, "RemoveClient", "NotFound") EXCEPT !.name = n]
  /\ storeFile' = [storeFile EXCEPT ![n] = "none"]
  /\ UNCHANGED <<clients, handed, sockOpen, ctxDone, isConnected, streak>>

RemoveMissing(t, n) ==
  /\ ret' = [R(t, "RemoveClient", "NotFound") EXCEPT !.name = n]
  /\ UNCHANGED <<clients, storeFile, handed, sockOpen, ctxDone, isConnected, streak>>

\* RemoveClient under the lock: NotFound, or Disconnect (its error only logged),
\* delete from the map, best-effort removal of the store file; deferred Unlock.
RemoveClientBody(t) ==
  /\ pc[t] = "rm_body" /\ mu = t
  /\ LET n == arg[t]
         i == clients[n] IN
     IF i = NoInst
     THEN RemoveMissing(t, n)
     ELSE \E libPanics \in BOOLEAN, sockCloses \in BOOLEAN, rmOk \in BOOLEAN :
          /\ TearDown(IF libPanics THEN {} ELSE {i},
                      IF libPanics /\ sockCloses THEN {i} ELSE {})
          /\ IF DisconnectReturns(libPanics) = "panic"
             THEN \* the panic unwinds RemoveClient: nothing is deleted
                  /\ ret' = [R(t, "RemoveClient", "panic") EXCEPT
                               !.name = n, !.inst = i, !.panics = {i}]
                  /\ UNCHANGED <<clients, storeFile, handed>>
             ELSE /\ clients' = [clients EXCEPT ![n] = NoInst]
                  /\ storeFile' = [storeFile EXCEPT ![n] = IF rmOk THEN "none" ELSE @]
                  /\ handed' = [handed EXCEPT ![n] = {}]
                  /\ ret' = [R(t, "RemoveClient", "ok") EXCEPT
                               !.name = n, !.inst = i,
                               !.panics = IF libPanics THEN {i} ELSE {}]
  /\ mu' = 0
  /\ pc' = [pc EXCEPT ![t] = "idle"]
  /\ arg' = [arg EXCEPT ![t] = 0]
  /\ UNCHANGED <<nextId, devName, hasID, latestQR, qrMu, qrSeq, disp,
                 cur, cancelled, qch>>
  /\ UNCHANGED extVars

\* DisconnectAll under the lock: Disconnect on every client of the map, the
\* non-nil results joined into one Internal error; no entry is deleted.
DisconnectAllBody(t) ==
  /\ pc[t] = "da_body" /\ mu = t
  /\ LET present == {clients[n] : n \in ListClients} IN
     \E P \in SUBSET present : \E S \in SUBSET P :
       LET errs == {i \in present : DisconnectReturns(i \in P) = "err"}
           thrown == {i \in present : DisconnectReturns(i \in P) = "panic"} IN
       IF thrown = {}
       THEN /\ TearDown(present \ P, S)
            /\ ret' = [R(t, "DisconnectAll", IF errs # {} THEN "Internal" ELSE "ok")
                         EXCEPT !.panics = P]
       ELSE \* a panic leaving Disconnect ends the loop at that client
            \E d \in thrown : \E Q \in SUBSET (present \ {d}) :
              /\ TearDown(Q \ P, S \cap (Q \cup {d}))
              /\ ret' = [R(t, "DisconnectAll", "panic") EXCEPT !.inst = d, !.panics = P]
  /\ mu' = 0
  /\ pc' = [pc EXCEPT ![t] = "idle"]
  /\ UNCHANGED <<clients, nextId, storeFile, handed, devName, hasID, latestQR,
                 qrMu, qrSeq, disp, arg, cur, cancelled, qch>>
  /\ UNCHANGED extVars

\* ---------------------------------------------------- LoadExistingDevices
\* MkdirAll and Glob: an Internal error, or the list of <name>_store.db files
LoadStart(t) ==
  /\ pc[t] = "idle"
  /\ \E dirOk \in BOOLEAN :
       IF dirOk
       THEN /\ load' = [load EXCEPT ![t] =
                         [NoLoad EXCEPT !.scan = {n \in Names : storeFile[n] # "none"},
                                        !.files = {n \in Names : storeFile[n] # "none"}]]
            /\ pc' = [pc EXCEPT ![t] = "ld_loop"]
            /\ ret' = NoRet
       ELSE /\ ret' = [R(t, "LoadExistingDevices", "Internal") EXCEPT !.msg = "dir"]
            /\ UNCHANGED <<pc, load>>
  /\ UNCHANGED <<mgrVars, cliVars, arg, cur, cancelled, qch, qrStale, delVars, semVars, msgVars, grpVars, regVars>>

\* the files still to scan after CreateClient failed for one: continue
RestAfterFailure_Abort(rest) == {}

RestAfterFailure(rest) == rest

\* one round of the loop: CreateClient (under m.mu) for the next file of the
\* list, its error logged and skipped
LoadStep(t) ==
  /\ pc[t] = "ld_loop" /\ load[t].scan # {} /\ mu = 0
  /\ LET n == CHOOSE x \in load[t].scan : \A y \in load[t].scan : x <= y
         rest == load[t].scan \ {n} IN
     IF ClientExists(n)
     THEN /\ handed' = [handed EXCEPT ![n] = @ \cup {clients[n]}]
          /\ load' = [load EXCEPT ![t].scan = rest, ![t].made = @ \cup {n}]
          /\ UNCHANGED <<clients, nextId, storeFile, devName, hasID>>
     ELSE \E storeOk \in BOOLEAN :
          IF storeOk
          THEN /\ nextId <= MaxInst
               /\ clients' = [clients EXCEPT ![n] = nextId]
               /\ devName' = [devName EXCEPT ![nextId] = n]
               /\ hasID' = [hasID EXCEPT ![nextId] = (storeFile[n] = "paired")]
               /\ storeFile' = [storeFile EXCEPT ![n] = IF @ = "none" THEN "unpaired" ELSE @]
               /\ nextId' = nextId + 1
               /\ handed' = [handed EXCEPT ![n] = @ \cup {nextId}]
               /\ load' = [load EXCEPT ![t].scan = rest, ![t].made = @ \cup {n}]
          ELSE /\ load' = [load EXCEPT ![t].scan = RestAfterFailure(rest),
                                       ![t].failed = @ \cup {n}]
               /\ UNCHANGED <<clients, nextId, storeFile, devName, hasID, handed>>
  /\ ret' = NoRet
  /\ UNCHANGED <<mu, isConnected, sockOpen, latestQR, qrMu, ctxDone, qrSeq, disp,
                 streak, pc, arg, cur, cancelled, qch, qrStale, delVars, semVars, msgVars, grpVars, regVars>>

\* the list is exhausted: return nil
LoadEnd(t) ==
  /\ pc[t] = "ld_loop" /\ load[t].scan = {}
  /\ ret' = [R(t, "LoadExistingDevices", "ok") EXCEPT
               !.files = load[t].files, !.made = load[t].made,
               !.failed = load[t].failed]
  /\ load' = [load EXCEPT ![t] = NoLoad]
  /\ pc' = [pc EXCEPT ![t] = "idle"]
  /\ UNCHANGED <<mgrVars, cliVars, arg, cur, cancelled, qch, qrStale, delVars, semVars, msgVars, grpVars, regVars>>

\* ------------------------------------------------------ Client calls (atomic)
\* Client.Connect: Conflict when the library socket is already open, else the
\* library's Connect, whose failure becomes a Connection error.
ClientConnect(t, i) ==
  /\ pc[t] = "idle" /\ Held(i)
  /\ IF sockOpen[i]
     THEN /\ ret' = [R(t, "Connect", "Conflict") EXCEPT !.inst = i]
          /\ UNCHANGED sockOpen
     ELSE \E dialOk \in BOOLEAN :
          IF dialOk
          THEN /\ sockOpen' = [sockOpen EXCEPT ![i] = TRUE]
               /\ ret' = [R(t, "Connect", "ok") EXCEPT !.inst = i]
          ELSE /\ ret' = [R(t, "Connect", "Connection") EXCEPT !.inst = i]
               /\ UNCHANGED sockOpen
  /\ streak' = [streak EXCEPT ![i] = 0]
  /\ UNCHANGED <<mgrVars, devName, isConnected, hasID, latestQR, qrMu, ctxDone,
                 qrSeq, disp, pc, arg, cur, cancelled, qch>>
  /\ UNCHANGED extVars

\* Client.Disconnect called directly on a client
ClientDisconnect(t, i) ==
  /\ pc[t] = "idle" /\ Held(i)
  /\ \E libPanics \in BOOLEAN, sockCloses \in BOOLEAN :
       /\ TearDown(IF libPanics THEN {} ELSE {i},
                   IF libPanics /\ sockCloses THEN {i} ELSE {})
       /\ ret' = [R(t, "Disconnect",
                    IF DisconnectReturns(libPanics) = "nil" THEN "ok" ELSE "panic")
                    EXCEPT !.inst = i, !.panics = IF libPanics THEN {i} ELSE {}]
  /\ UNCHANGED <<mgrVars, devName, hasID, latestQR, qrMu, qrSeq, disp,
                 pc, arg, cur, cancelled, qch>>
  /\ UNCHANGED extVars

\* ------------------------------------------------------- Client.GetQRCode
QRpcs == {"qr_lock", "qr_chan", "qr_wait"}

\* the call is made; its first statement is c.qrMu.Lock()
GetQRCodeCall(t, i) ==
  /\ pc[t] = "idle" /\ Held(i)
  /\ pc' = [pc EXCEPT ![t] = "qr_lock"]
  /\ cur' = [cur EXCEPT ![t] = i]
  /\ ret' = NoRet
  /\ UNCHANGED <<mgrVars, cliVars, arg, cancelled, qch>>
  /\ UNCHANGED extVars

\* the caller's context is cancelled while its GetQRCode call is in progress
CancelCtx(t) ==
  /\ pc[t] \in QRpcs /\ ~cancelled[t]
  /\ cancelled' = [cancelled EXCEPT ![t] = TRUE]
  /\ ret' = NoRet
  /\ UNCHANGED <<mgrVars, cliVars, pc, arg, cur, qch>>
  /\ UNCHANGED extVars

\* The two checks at the head of GetQRCode, in the order of the code
QRPrecheck_CacheFirst(i) ==
  IF latestQR[i] # NoCode THEN "cached"
  ELSE IF hasID[i] /\ sockOpen[i] THEN "conflict"
  ELSE "pair"

QRPrecheck(i) ==
  IF hasID[i] /\ sockOpen[i] THEN "conflict"
  ELSE IF latestQR[i] # NoCode THEN "cached"
  ELSE "pair"

\* c.latestQR after the cached code was handed out: the branch only reads it
LatestQRAfterCacheHit_Cleared(i) == NoCode

LatestQRAfterCacheHit(i) == latestQR[i]

\* the response built around a code: Timeout is the literal 30
QRResponse(t, i, code) ==
  [R(t, "GetQRCode", "ok") EXCEPT !.inst = i, !.code = code, !.timeout = QRTimeoutSecs]

\* the call is over: the deferred qrMu.Unlock() has run, the locals are gone
QRLeave(t) ==
  /\ pc' = [pc EXCEPT ![t] = "idle"]
  /\ cur' = [cur EXCEPT ![t] = NoInst]
  /\ cancelled' = [cancelled EXCEPT ![t] = FALSE]
  /\ qch' = [qch EXCEPT ![t] = NilChan]

\* qrMu acquired; already logged in -> Conflict; cached code -> returned;
\* otherwise the call goes on holding qrMu (deferred Unlock on every return)
QRLockAndCheck(t) ==
  /\ pc[t] = "qr_lock"
  /\ LET i == cur[t] IN
     /\ qrMu[i] = 0
     /\ IF QRPrecheck(i) = "conflict"
        THEN /\ ret' = [R(t, "GetQRCode", "Conflict") EXCEPT !.inst = i]
             /\ QRLeave(t)
             /\ UNCHANGED <<qrMu, streak, latestQR>>
        ELSE IF QRPrecheck(i) = "cached"
        THEN /\ ret' = [QRResponse(t, i, latestQR[i]) EXCEPT !.msg = "cached"]
             /\ QRLeave(t)
             /\ latestQR' = [latestQR EXCEPT ![i] = LatestQRAfterCacheHit(i)]
             /\ streak' = [streak EXCEPT ![i] = IF @ < 2 THEN @ + 1 ELSE 2]
             /\ UNCHANGED qrMu
        ELSE /\ qrMu' = [qrMu EXCEPT ![i] = t]
             /\ pc' = [pc EXCEPT ![t] = "qr_chan"]
             /\ ret' = NoRet
             /\ UNCHANGED <<cur, cancelled, qch, streak, latestQR>>
  /\ UNCHANGED <<mgrVars, devName, isConnected, sockOpen, hasID, ctxDone,
                 qrSeq, disp, arg>>
  /\ UNCHANGED extVars

\* the library's dispatcher can take its next step
DispatchCanStep(i) ==
  \/ disp[i].stage = "chan"
  \/ disp[i].stage = "client" /\ qrMu[i] = 0

\* GetQRChannel(c.ctx) with its error dropped (a nil channel when the library is
\* connected or paired; otherwise a handler is added to the library's handler
\* list, which waits for a dispatch in progress), then c.client.Connect().
QRGetChannel(t) ==
  /\ pc[t] = "qr_chan"
  /\ LET i == cur[t]
         noChan == sockOpen[i] \/ hasID[i] IN
     /\ noChan \/ disp[i].stage = "idle"
     /\ IF sockOpen[i]
        THEN \* Connect: already connected
             /\ ret' = [R(t, "GetQRCode", "Connection") EXCEPT !.inst = i, !.msg = "connect"]
             /\ qrMu' = [qrMu EXCEPT ![i] = 0]
             /\ QRLeave(t)
             /\ UNCHANGED sockOpen
        ELSE \E dialOk \in BOOLEAN :
             IF dialOk
             THEN /\ sockOpen' = [sockOpen EXCEPT ![i] = TRUE]
                  /\ qch' = [qch EXCEPT ![t] = IF noChan THEN NilChan ELSE OpenChan]
                  /\ pc' = [pc EXCEPT ![t] = "qr_wait"]
                  /\ ret' = NoRet
                  /\ UNCHANGED <<qrMu, cur, cancelled>>
             ELSE /\ ret' = [R(t, "GetQRCode", "Connection") EXCEPT
                               !.inst = i, !.msg = "connect"]
                  /\ qrMu' = [qrMu EXCEPT ![i] = 0]
                  /\ QRLeave(t)
                  /\ UNCHANGED sockOpen
  /\ streak' = [streak EXCEPT ![cur[t]] = 0]
  /\ UNCHANGED <<mgrVars, devName, isConnected, hasID, latestQR, ctxDone, qrSeq,
                 disp, arg>>
  /\ UNCHANGED extVars

\* select, case evt := <-qrChan
QRRecv(t) ==
  /\ pc[t] = "qr_wait"
  /\ qch[t].st \in {"item", "closed"}
  /\ LET i == cur[t] IN
     /\ IF qch[t].st = "item" /\ qch[t].ev = "code"
        THEN /\ latestQR' = [latestQR EXCEPT ![i] = qch[t].code]
             /\ ret' = QRResponse(t, i, qch[t].code)
             /\ streak' = [streak EXCEPT ![i] = 1]
        ELSE /\ ret' = [R(t, "GetQRCode", "WhatsApp") EXCEPT
                          !.inst = i, !.msg = "unknown-event"]
             /\ UNCHANGED <<latestQR, streak>>
     /\ qrMu' = [qrMu EXCEPT ![i] = 0]
  /\ QRLeave(t)
  /\ UNCHANGED <<mgrVars, devName, isConnected, sockOpen, hasID, ctxDone, qrSeq,
                 disp, arg>>
  /\ qrStale' = [qrStale EXCEPT ![cur[t]] = FALSE]
  /\ UNCHANGED ext2Vars

\* kind of the error built for the timeout: apperrors.NewWhatsAppError
TimeoutKind_Bare == "bare"

TimeoutKind == "WhatsApp"

\* select, case <-time.After(30 * time.Second): the 30 seconds pass once the
\* channel is empty and no dispatch that could fill it is able to run
QRTimeout(t) ==
  /\ pc[t] = "qr_wait"
  /\ qch[t].st \in {"nil", "open"}
  /\ ~DispatchCanStep(cur[t])
  /\ ret' = [R(t, "GetQRCode", TimeoutKind) EXCEPT !.inst = cur[t], !.msg = "timeout"]
  /\ qrMu' = [qrMu EXCEPT ![cur[t]] = 0]
  /\ QRLeave(t)
  /\ UNCHANGED <<mgrVars, devName, isConnected, sockOpen, hasID, latestQR, ctxDone,
                 qrSeq, disp, streak, arg>>
  /\ UNCHANGED extVars

\* select, case <-ctx.Done(): return nil, ctx.Err()
QRCtxDone(t) ==
  /\ pc[t] = "qr_wait"
  /\ cancelled[t]
  /\ ret' = [R(t, "GetQRCode", "bare") EXCEPT !.inst = cur[t], !.msg = "context canceled"]
  /\ qrMu' = [qrMu EXCEPT ![cur[t]] = 0]
  /\ QRLeave(t)
  /\ UNCHANGED <<mgrVars, devName, isConnected, sockOpen, hasID, latestQR, ctxDone,
                 qrSeq, disp, streak, arg>>
  /\ UNCHANGED extVars

\* the library closes a QR channel whose context (c.ctx) is done, after taking
\* its handler off the handler list
QRChanClose(t) ==
  /\ pc[t] = "qr_wait" /\ qch[t].st = "open"
  /\ ctxDone[cur[t]] /\ disp[cur[t]].stage = "idle"
  /\ qch' = [qch EXCEPT ![t] = ClosedChan]
  /\ ret' = NoRet
  /\ UNCHANGED <<mgrVars, cliVars, pc, arg, cur, cancelled>>
  /\ UNCHANGED extVars

\* ------------------------------------------- library events and the dispatcher
\* The library reads one event at a time and calls the registered handlers one
\* after the other in the order of registration: first the handler NewClient
\* registered (registerEventHandlers), then the handlers of the QR channels.

\* a QR channel of this client has a handler on the library's handler list
HasChanHandler(i) ==
  \E t \in Callers : cur[t] = i /\ pc[t] = "qr_wait" /\ qch[t].st = "open"

\* stage of the dispatcher after the client's own handler has returned
AfterClientHandler(i, e) ==
  IF HasChanHandler(i) THEN [DispIdle EXCEPT !.stage = "chan", !.evt = e] ELSE DispIdle

\* QR event: an unpaired client with an open socket is sent pairing codes
LibQR(i, len) ==
  /\ Live(i) /\ disp[i].stage = "idle"
  /\ sockOpen[i] /\ ~hasID[i] /\ qrSeq[i] < MaxQR
  /\ qrSeq' = [qrSeq EXCEPT ![i] = @ + 1]
  /\ disp' = [disp EXCEPT ![i] = [stage |-> "client", evt |-> "QR",
                                  first |-> Code(qrSeq[i] + 1, 1),
                                  last |-> Code(qrSeq[i] + 1, len)]]
  /\ ret' = NoRet
  /\ UNCHANGED <<mgrVars, devName, isConnected, sockOpen, hasID, latestQR, qrMu,
                 ctxDone, streak, pc, arg, cur, cancelled, qch>>
  /\ UNCHANGED extVars

\* QR event at the client's handler: handleQRCode takes c.qrMu, stores the last
\* code of the event and releases it; the dispatcher waits here while a
\* GetQRCode call holds c.qrMu
DispatchClient(i) ==
  /\ disp[i].stage = "client" /\ disp[i].evt = "QR"
  /\ qrMu[i] = 0
  /\ latestQR' = [latestQR EXCEPT ![i] = disp[i].last]
  /\ disp' = [disp EXCEPT ![i] = IF HasChanHandler(i) THEN [@ EXCEPT !.stage = "chan"]
                                 ELSE DispIdle]
  /\ ret' = NoRet
  /\ streak' = [streak EXCEPT ![i] = 0]
  /\ UNCHANGED <<mgrVars, devName, isConnected, sockOpen, hasID, qrMu, ctxDone, qrSeq,
                 pc, arg, cur, cancelled, qch>>
  /\ qrStale' = [qrStale EXCEPT ![i] = FALSE]
  /\ UNCHANGED ext2Vars

\* the phone scanned a code: the library stores the identity (Store.ID); the
\* client's handler has no case for this event
LibPairSuccess(i) ==
  /\ Live(i) /\ disp[i].stage = "idle"
  /\ sockOpen[i] /\ ~hasID[i] /\ qrSeq[i] > 0
  /\ hasID' = [hasID EXCEPT ![i] = TRUE]
  /\ storeFile' = [storeFile EXCEPT ![devName[i]] =
                     IF clients[devName[i]] = i THEN "paired" ELSE @]
  /\ disp' = [disp EXCEPT ![i] = AfterClientHandler(i, "PairSuccess")]
  /\ ret' = NoRet
  /\ streak' = [streak EXCEPT ![i] = 0]
  /\ UNCHANGED <<clients, mu, nextId, handed, devName, isConnected, sockOpen,
                 latestQR, qrMu, ctxDone, qrSeq, pc, arg, cur, cancelled, qch>>
  /\ UNCHANGED extVars

\* Connected event: handleConnected sets isConnected under connMu
LibConnected(i) ==
  /\ Live(i) /\ disp[i].stage = "idle"
  /\ sockOpen[i] /\ hasID[i] /\ ~isConnected[i]
  /\ isConnected' = [isConnected EXCEPT ![i] = TRUE]
  /\ disp' = [disp EXCEPT ![i] = AfterClientHandler(i, "Connected")]
  /\ ret' = NoRet
  /\ streak' = [streak EXCEPT ![i] = 0]
  /\ UNCHANGED <<mgrVars, devName, sockOpen, hasID, latestQR, qrMu,
                 ctxDone, qrSeq, pc, arg, cur, cancelled, qch>>
  /\ UNCHANGED extVars

\* Disconnected event (the connection was lost): handleDisconnected clears
\* isConnected under connMu
LibDisconnected(i) ==
  /\ Live(i) /\ disp[i].stage = "idle"
  /\ sockOpen[i]
  /\ sockOpen' = [sockOpen EXCEPT ![i] = FALSE]
  /\ isConnected' = [isConnected EXCEPT ![i] = FALSE]
  /\ disp' = [disp EXCEPT ![i] = AfterClientHandler(i, "Disconnected")]
  /\ ret' = NoRet
  /\ streak' = [streak EXCEPT ![i] = 0]
  /\ UNCHANGED <<mgrVars, devName, hasID, latestQR, qrMu,
                 ctxDone, qrSeq, pc, arg, cur, cancelled, qch>>
  /\ UNCHANGED extVars

\* the validity of the code in c.latestQR runs out; nothing in the client
\* records when the code was issued, so no field changes
QRValidityEnds(i) ==
  /\ Live(i) /\ latestQR[i] # NoCode /\ ~qrStale[i]
  /\ qrStale' = [qrStale EXCEPT ![i] = TRUE]
  /\ ret' = NoRet
  /\ UNCHANGED <<mgrVars, cliVars, pc, arg, cur, cancelled, qch, ext2Vars>>

\* what a QR channel emits first for an event of the library
ChanItemOf(d) ==
  IF d.evt = "QR" THEN ChanItem("code", d.first)
  ELSE IF d.evt = "PairSuccess" THEN ChanItem("success", NoCode)
  ELSE IF d.evt = "Disconnected" THEN ChanItem("timeout", NoCode)
  ELSE ChanItem("err-unexpected-state", NoCode)

\* the handlers of the QR channels opened by GetQRChannel
DispatchChan(i) ==
  /\ disp[i].stage = "chan"
  /\ qch' = [t \in Callers |->
               IF cur[t] = i /\ pc[t] = "qr_wait" /\ qch[t].st = "open"
               THEN ChanItemOf(disp[i]) ELSE qch[t]]
  /\ disp' = [disp EXCEPT ![i] = DispIdle]
  /\ ret' = NoRet
  /\ UNCHANGED <<mgrVars, devName, isConnected, sockOpen, hasID, latestQR, qrMu,
                 ctxDone, qrSeq, streak, pc, arg, cur, cancelled>>
  /\ UNCHANGED extVars

\* ------------------------------------------------- recipient identifiers
\* A recipient string is a sequence of tokens: "d" a digit, "-" a hyphen, "x"
\* any other character that is not "@", "@s" the text "@s.whatsapp.net", "@g"
\* the text "@g.us".
JidTokens == {"d", "-", "x", "@s", "@g"}

UpTo(n) == UNION {[1..k -> JidTokens] : k \in 0..n}

Recipients == UpTo(MaxJidLen)

\* regexp ^\d+$ on the tokens a..b of q
Digits(q, a, b) == a <= b /\ \A k \in a..b : q[k] = "d"

\* ValidateWhatsAppJID: ^\d+@s\.whatsapp\.net$ or ^\d+-\d+@g\.us$
ValidateWhatsAppJID_Unanchored(q) ==
  \E a, b \in 1..Len(q) :
    \/ q[b] = "@s" /\ Digits(q, a, b - 1)
    \/ q[b] = "@g" /\ \E h \in a..b : q[h] = "-" /\ Digits(q, a, h - 1) /\ Digits(q, h + 1, b - 1)

ValidateWhatsAppJID(q) ==
  /\ Len(q) > 0
  /\ \/ q[Len(q)] = "@s" /\ Digits(q, 1, Len(q) - 1)
     \/ q[Len(q)] = "@g" /\ \E h \in 1..Len(q) :
           q[h] = "-" /\ Digits(q, 1, h - 1) /\ Digits(q, h + 1, Len(q) - 1)

\* parseJID (types.ParseJID of the library): a string without "@" is taken as a
\* server name; otherwise the user part is split at dots and colons, which can
\* fail only when it holds a character other than digits and hyphens
ParseJIDOutcomes(q) ==
  IF \E k \in 1..Len(q) : q[k] \in {"@s", "@g"} /\ \E h \in 1..(k - 1) : q[h] = "x"
  THEN {TRUE, FALSE} ELSE {TRUE}

\* ------------------------------------------- Client operations that send
\* Client.IsConnected: c.isConnected && c.client.IsConnected()
IsConnected(i) == isConnected[i] /\ sockOpen[i]

\* Client.GetConnectionStatus: disconnected for a device without a stored
\* identity, connected when IsConnected, disconnected in every other case
GetConnectionStatus(i) ==
  IF ~hasID[i] THEN "disconnected"
  ELSE IF IsConnected(i) THEN "connected"
  ELSE "disconnected"

\* a result: its kind and the calls made to the protocol library
Res(kind, lib) == [kind |-> kind, lib |-> lib]

\* Client.SendTextMessage: connection check, parseJID, SendMessage
SendTextResults(i, to) ==
  IF ~IsConnected(i) THEN {Res("Connection", <<>>)}
  ELSE {Res("Validation", <<>>) : ok \in ParseJIDOutcomes(to) \ {TRUE}}
       \cup {Res(k, <<"SendMessage">>) : k \in IF TRUE \in ParseJIDOutcomes(to)
                                                 THEN {"ok", "WhatsApp"} ELSE {}}

\* Client.SendFileMessage: the adapter does not send files
SendFileResults(i) == {Res("Internal", <<>>)}

\* Client.GetContacts: connection check, then the library's contact store
GetContactsResults(i) ==
  IF ~IsConnected(i) THEN {Res("Connection", <<>>)}
  ELSE {Res(k, <<"GetAllContacts">>) : k \in {"ok", "Database"}}

\* Client.GetGroups: connection check, then GetJoinedGroups; groups whose info
\* cannot be fetched are left out
GetGroupsResults(i) ==
  IF ~IsConnected(i) THEN {Res("Connection", <<>>)}
  ELSE {Res("WhatsApp", <<"GetJoinedGroups">>),
        Res("ok", <<"GetJoinedGroups">>),
        Res("ok", <<"GetJoinedGroups", "GetGroupInfo">>)}

\* Client.SetPresence: connection check only
SetPresenceResults(i) ==
  IF ~IsConnected(i) THEN {Res("Connection", <<>>)} ELSE {Res("ok", <<>>)}

\* Client.SendTyping: connection check, parseJID, SendChatPresence
SendTypingResults(i, to) ==
  IF ~IsConnected(i) THEN {Res("Connection", <<>>)}
  ELSE {Res("Validation", <<>>) : ok \in ParseJIDOutcomes(to) \ {TRUE}}
       \cup {Res(k, <<"SendChatPresence">>) : k \in IF TRUE \in ParseJIDOutcomes(to)
                                                      THEN {"ok", "WhatsApp"} ELSE {}}

ClientOps == {"SendTextMessage", "SendFileMessage", "GetContacts", "GetGroups",
              "SetPresence", "SendTyping"}

ClientOpResults(op, i, to) ==
  CASE op = "SendTextMessage" -> SendTextResults(i, to)
    [] op = "SendFileMessage" -> SendFileResults(i)
    [] op = "GetContacts" -> GetContactsResults(i)
    [] op = "GetGroups" -> GetGroupsResults(i)
    [] op = "SetPresence" -> SetPresenceResults(i)
    [] op = "SendTyping" -> SendTypingResults(i, to)

\* one of the six operations called on a client; one call is followed at a time
ClientOp(t, i, op) ==
  /\ pc[t] = "idle" /\ Held(i) /\ ret = NoRet
  /\ \E to \in IF op \in {"SendTextMessage", "SendTyping"} THEN Recipients ELSE {<<>>} :
     \E r \in ClientOpResults(op, i, to) :
       ret' = [R(t, op, r.kind) EXCEPT !.inst = i, !.name = devName[i],
                                       !.to = to, !.lib = r.lib]
  /\ UNCHANGED <<mgrVars, cliVars, pc, arg, cur, cancelled, qch, extVars>>

\* the caller has dealt with the result of its call
ResultTaken ==
  /\ ret # NoRet
  /\ ret' = NoRet
  /\ UNCHANGED <<mgrVars, cliVars, pc, arg, cur, cancelled, qch, extVars>>

\* ------------------------------------------------------------- use cases
MessageTypes == {"text", "file", "sticker"}

\* the result of a use case and the kind of the client's result behind it
ResOf(r, client) == [kind |-> r.kind, lib |-> r.lib, client |-> client]

\* SendMessageUseCase.Execute: JID validation, client lookup, connection check,
\* typing indicator around the send (its errors dropped), the send by type, a
\* client error wrapped as a WhatsApp error
SendMessageResults(n, to, mtype, typing) ==
  IF ~ValidateWhatsAppJID(to) THEN {ResOf(Res("Validation", <<>>), "none")}
  ELSE IF GetClient(n) = NoInst THEN {ResOf(Res("NotFound", <<>>), "none")}
  ELSE IF ~IsConnected(GetClient(n)) THEN {ResOf(Res("Connection", <<>>), "none")}
  ELSE LET i == GetClient(n)
           on == IF typing THEN {r.lib : r \in SendTypingResults(i, to)} ELSE {<<>>}
           off == on
           sent == IF mtype = "text" THEN SendTextResults(i, to)
                   ELSE IF mtype = "file" THEN SendFileResults(i)
                   ELSE {Res("Validation", <<>>)} IN
       {ResOf(Res(IF r.kind = "ok" \/ mtype \notin {"text", "file"}
                  THEN r.kind ELSE "WhatsApp",
                  a \o r.lib \o b),
              IF mtype \in {"text", "file"} THEN r.kind ELSE "none") :
          r \in sent, a \in on, b \in off}

SendMessageExecute(t, n) ==
  /\ pc[t] = "idle" /\ mu = 0 /\ ret = NoRet
  /\ \E to \in Recipients, mtype \in MessageTypes, typing \in BOOLEAN :
     \E r \in SendMessageResults(n, to, mtype, typing) :
       ret' = [R(t, "SendMessage", r.kind) EXCEPT
                 !.name = n, !.inst = GetClient(n), !.to = to, !.lib = r.lib,
                 !.client = r.client,
                 !.msg = IF typing THEN "typing" ELSE ""]
  /\ UNCHANGED <<mgrVars, cliVars, pc, arg, cur, cancelled, qch, extVars>>

\* what ConnectUseCase.Execute does with the error of Client.Connect
ConnectErrorKind(kind) == "Connection"

\* ConnectUseCase.Execute (ConnectDevice): client lookup, Conflict when
\* IsConnected(), else Client.Connect
ConnectExecute(t, n) ==
  /\ pc[t] = "idle" /\ mu = 0 /\ ret = NoRet
  /\ LET i == GetClient(n) IN
     IF i = NoInst
     THEN /\ ret' = [R(t, "ConnectDevice", "NotFound") EXCEPT !.name = n]
          /\ UNCHANGED <<sockOpen, streak>>
     ELSE IF IsConnected(i)
     THEN /\ ret' = [R(t, "ConnectDevice", "Conflict") EXCEPT !.name = n, !.inst = i]
          /\ UNCHANGED <<sockOpen, streak>>
     ELSE IF sockOpen[i]
     THEN \* Client.Connect: Conflict
          /\ ret' = [R(t, "ConnectDevice", ConnectErrorKind("Conflict")) EXCEPT
                       !.name = n, !.inst = i, !.msg = "socket-open",
                       !.client = "Conflict"]
          /\ UNCHANGED <<sockOpen, streak>>
     ELSE \E dialOk \in BOOLEAN :
          /\ streak' = [streak EXCEPT ![i] = 0]
          /\ IF dialOk
             THEN /\ sockOpen' = [sockOpen EXCEPT ![i] = TRUE]
                  /\ ret' = [R(t, "ConnectDevice", "ok") EXCEPT
                               !.name = n, !.inst = i, !.lib = <<"Connect">>,
                               !.client = "ok"]
             ELSE /\ ret' = [R(t, "ConnectDevice", ConnectErrorKind("Connection")) EXCEPT
                               !.name = n, !.inst = i, !.lib = <<"Connect">>,
                               !.client = "Connection"]
                  /\ UNCHANGED sockOpen
  /\ UNCHANGED <<mgrVars, devName, isConnected, hasID, latestQR, qrMu, ctxDone,
                 qrSeq, disp, pc, arg, cur, cancelled, qch, extVars>>

\* DisconnectUseCase.Execute (DisconnectDevice): client lookup, nil at once
\* when IsConnected() is false, else Client.Disconnect, which returns nil
DisconnectExecute(t, n) ==
  /\ pc[t] = "idle" /\ mu = 0 /\ ret = NoRet
  /\ LET i == GetClient(n) IN
     IF i = NoInst
     THEN /\ ret' = [R(t, "DisconnectDevice", "NotFound") EXCEPT !.name = n]
          /\ UNCHANGED <<sockOpen, ctxDone, isConnected, streak>>
     ELSE IF ~IsConnected(i)
     THEN /\ ret' = [R(t, "DisconnectDevice", "ok") EXCEPT
                       !.name = n, !.inst = i, !.msg = "already"]
          /\ UNCHANGED <<sockOpen, ctxDone, isConnected, streak>>
     ELSE \E libPanics \in BOOLEAN, sockCloses \in BOOLEAN :
          /\ TearDown(IF libPanics THEN {} ELSE {i},
                      IF libPanics /\ sockCloses THEN {i} ELSE {})
          /\ ret' = [R(t, "DisconnectDevice",
                       IF DisconnectReturns(libPanics) = "nil" THEN "ok" ELSE "panic")
                       EXCEPT !.name = n, !.inst = i, !.lib = <<"Disconnect">>,
                              !.panics = IF libPanics THEN {i} ELSE {}]
  /\ UNCHANGED <<mgrVars, devName, hasID, latestQR, qrMu, qrSeq, disp,
                 pc, arg, cur, cancelled, qch, extVars>>

\* clients, the operations on them and the use cases in front of them
NextCli ==
  \/ \E t \in Callers, n \in Names : DisconnectExecute(t, n)
  \/ \E t \in Callers, i \in Insts, op \in ClientOps : ClientOp(t, i, op)
  \/ \E t \in Callers, n \in Names : SendMessageExecute(t, n)
  \/ \E t \in Callers, n \in Names : ConnectExecute(t, n)
  \/ ResultTaken
  \/ \E t \in Callers, i \in Insts : ClientConnect(t, i)
  \/ \E t \in Callers, i \in Insts : ClientDisconnect(t, i)
  \/ \E i \in Insts : LibConnected(i)
  \/ \E i \in Insts : LibDisconnected(i)

\* ------------------------------------------------------- ProcessorRegistry
coreVars == <<mgrVars, cliVars, pc, arg, cur, cancelled, qch, ret>>

Range(q) == {q[k] : k \in 1..Len(q)}

\* the sequences that hold the elements of q, each once
Arrangements(q) ==
  {r \in [1..Len(q) -> Range(q)] : \A x \in Range(q) : \E k \in 1..Len(q) : r[k] = x}

\* less(i, j) of Register: r.processors[i].Priority() > r.processors[j].Priority()
Less_Ascending(a, b) == prio[a] < prio[b]

Less(a, b) == prio[a] > prio[b]

\* sort.Slice(r.processors, less): an unstable sort, so any arrangement of the
\* slice in which no element is less than one before it
SortSlice(q) ==
  {r \in Arrangements(q) :
     \A a, b \in 1..Len(r) : a < b => ~Less(r[b], r[a])}

\* Register: append and sort under r.mu; every call registers a processor of
\* its own
Register(p) ==
  /\ p \notin Range(processors)
  /\ processors' \in SortSlice(Append(processors, p))
  /\ registered' = registered \cup {p}
  /\ moved' = (processors' # Append(processors, p))
  /\ procIn' = NoProcIn
  /\ procLog' = <<>>
  /\ procRet' = 0
  /\ UNCHANGED <<prio, coreVars, qrStale, load, delVars, semVars, msgVars, grpVars>>

\* GetProcessors: a copy of r.processors
GetProcessors == [k \in 1..Len(processors) |-> processors[k]]

GetProcessorCount == Len(processors)

\* the loop of Process over a list q: the processors invoked and the errors
\* collected, both in the order of the loop
RECURSIVE RunProcessors_ShortCircuit(_, _, _)
RunProcessors_ShortCircuit(q, can, fail) ==
  IF q = <<>> THEN [log |-> <<>>, errs |-> <<>>]
  ELSE LET p == Head(q) IN
       IF p \notin can THEN RunProcessors_ShortCircuit(Tail(q), can, fail)
       ELSE IF p \in fail THEN [log |-> <<p>>, errs |-> <<p>>]
       ELSE LET rest == RunProcessors_ShortCircuit(Tail(q), can, fail) IN
            [log |-> <<p>> \o rest.log, errs |-> rest.errs]

RECURSIVE RunProcessors(_, _, _)
RunProcessors(q, can, fail) ==
  IF q = <<>> THEN [log |-> <<>>, errs |-> <<>>]
  ELSE LET p == Head(q)
           rest == RunProcessors(Tail(q), can, fail) IN
       IF p \notin can THEN rest
       ELSE [log |-> <<p>> \o rest.log,
             errs |-> IF p \in fail THEN <<p>> \o rest.errs ELSE rest.errs]

\* Process under r.mu.RLock: the loop, then the first error or nil; one call
\* is followed at a time
RegistryProcess(can, fail) ==
  /\ ~procIn.called
  /\ fail \subseteq can
  /\ LET run == RunProcessors(processors, can, fail) IN
     /\ procLog' = run.log
     /\ procRet' = IF Len(run.errs) > 0 THEN run.errs[1] ELSE 0
  /\ procIn' = [called |-> TRUE, can |-> can, fail |-> fail]
  /\ UNCHANGED <<processors, prio, registered, moved, coreVars, qrStale, load, delVars, semVars, msgVars, grpVars>>

\* the caller of Process has dealt with the result
ProcessDone ==
  /\ procIn.called
  /\ procIn' = NoProcIn
  /\ procLog' = <<>>
  /\ procRet' = 0
  /\ UNCHANGED <<processors, prio, registered, moved, coreVars, qrStale, load, delVars, semVars, msgVars, grpVars>>

NextReg ==
  \/ \E p \in Procs : Register(p)
  \/ ProcessDone
  \/ \E can \in SUBSET Procs : \E fail \in SUBSET can : RegistryProcess(can, fail)

\* a fresh registry in a process whose manager is idle; the processors come
\* with their priorities
InitReg ==
  /\ MgrInit /\ storeFile = [n \in Names |-> "none"]
  /\ qrStale = [i \in Insts |-> FALSE]
  /\ load = [t \in Callers |-> NoLoad]
  /\ recStatus = [n \in Names |-> "none"]
  /\ del = [t \in Callers |-> NoDel]
  /\ SemInit /\ maxConc = EnvDefaultConcurrency
  /\ RegInit
  /\ prio \in [Procs -> 1..MaxPrio]

SpecReg == InitReg /\ [][NextReg]_vars

\* -------------------------------------------------------- inbound messages
\* the capacity of c.sem: NewClient replaces a MaxConcurrency of 0 by the
\* default and makes the channel with that many places
SemCapacity == IF maxConc = 0 THEN DefaultMaxConcurrency ELSE maxConc

\* c.sem <- struct{}{} goes through only while the channel has a free place
SendBlocks_Never(i) == FALSE

SendBlocks(i) == sem[i] >= SemCapacity

\* what the deferred <-c.sem leaves in the channel
SemAfterReceive_Kept(n) == n

SemAfterReceive(n) == n - 1

\* the messages handleMessage returns for without starting a goroutine: those
\* of the account itself and those whose conversation text is empty
Skipped_OnlySelf(fromMe, hasText) == fromMe

Skipped(fromMe, hasText) == fromMe \/ ~hasText

\* where the send into c.sem happens: in the goroutine handleMessage starts,
\* not in handleMessage itself
SendInCallback_Yes == TRUE

SendInCallback == FALSE

\* the library hands an events.Message to the client's handler: handleMessage
\* returns at once for a message of the account itself or one without text,
\* and starts a goroutine for any other; it waits for nothing
LibMessage(i, fromMe, hasText) ==
  /\ Live(i) /\ disp[i].stage = "idle" /\ sockOpen[i]
  /\ semWait[i] + running[i] < MaxMsgs
  /\ SendInCallback /\ ~fromMe /\ hasText => ~SendBlocks(i)
  /\ semWait' = [semWait EXCEPT ![i] = IF Skipped(fromMe, hasText) THEN @ ELSE @ + 1]
  /\ ret' = NoRet
  /\ UNCHANGED <<mgrVars, cliVars, pc, arg, cur, cancelled, qch, qrStale,
                 load, delVars, maxConc, sem, running, regVars>>

\* a goroutine of handleMessage gets its element into c.sem and calls OnMessage
HandlerAcquire(i) ==
  /\ semWait[i] > 0 /\ ~SendBlocks(i)
  /\ semWait' = [semWait EXCEPT ![i] = @ - 1]
  /\ sem' = [sem EXCEPT ![i] = @ + 1]
  /\ running' = [running EXCEPT ![i] = @ + 1]
  /\ ret' = NoRet
  /\ UNCHANGED <<mgrVars, cliVars, pc, arg, cur, cancelled, qch, qrStale,
                 load, delVars, maxConc, regVars>>

\* OnMessage returns and the deferred function takes one element out of c.sem
HandlerDone(i) ==
  /\ running[i] > 0
  /\ running' = [running EXCEPT ![i] = @ - 1]
  /\ sem' = [sem EXCEPT ![i] = SemAfterReceive(@)]
  /\ ret' = NoRet
  /\ UNCHANGED <<mgrVars, cliVars, pc, arg, cur, cancelled, qch, qrStale,
                 load, delVars, maxConc, semWait, regVars>>

\* a connected client and the messages that come in for it, counted
NextSem ==
  \/ \E t \in Callers, i \in Insts : ClientConnect(t, i)
  \/ \E i \in Insts, fromMe \in BOOLEAN, hasText \in BOOLEAN :
       LibMessage(i, fromMe, hasText) /\ UNCHANGED <<msgVars, grpVars>>
  \/ \E i \in Insts : HandlerAcquire(i) /\ UNCHANGED <<msgVars, grpVars>>
  \/ \E i \in Insts : HandlerDone(i) /\ UNCHANGED <<msgVars, grpVars>>

\* the same steps with every Message event followed: the event and what
\* handleMessage does with it
MsgEvent(i, fromMe, hasText) ==
  /\ arrivals < NumMsgs
  /\ LibMessage(i, fromMe, hasText)
  /\ arrivals' = arrivals + 1
  /\ msgSt' = [msgSt EXCEPT ![arrivals + 1] =
                 [inst |-> i, fromMe |-> fromMe, hasText |-> hasText,
                  st |-> IF semWait'[i] = semWait[i] THEN "returned" ELSE "waiting"]]
  /\ UNCHANGED <<onMessage, grpVars>>

\* the goroutine of message m gets its place and calls OnMessage(deviceName, msg)
MsgAcquire(m) ==
  /\ msgSt[m].st = "waiting"
  /\ HandlerAcquire(msgSt[m].inst)
  /\ msgSt' = [msgSt EXCEPT ![m].st = "running"]
  /\ onMessage' = Append(onMessage, <<devName[msgSt[m].inst], m>>)
  /\ UNCHANGED <<arrivals, grpVars>>

\* OnMessage of message m returns and its goroutine ends
MsgDone(m) ==
  /\ msgSt[m].st = "running"
  /\ HandlerDone(msgSt[m].inst)
  /\ msgSt' = [msgSt EXCEPT ![m].st = "done"]
  /\ UNCHANGED <<arrivals, onMessage, grpVars>>

NextMsg ==
  \/ \E t \in Callers, i \in Insts : ClientConnect(t, i)
  \/ \E i \in Insts, fromMe \in BOOLEAN, hasText \in BOOLEAN :
       MsgEvent(i, fromMe, hasText)
  \/ \E m \in Msgs : MsgAcquire(m)
  \/ \E m \in Msgs : MsgDone(m)

\* ---------------------------------------------------------------- GetGroups
\* Client.GetGroups up to its loop: Connection for a client that is not
\* connected, a WhatsApp error when GetJoinedGroups fails, else the loop over
\* the joined groups
GetGroupsBegin(c, J) ==
  /\ gg.st = "idle" /\ Live(c)
  /\ \E joinedOk \in BOOLEAN :
       gg' = IF ~IsConnected(c)
             THEN [NoGG EXCEPT !.st = "done", !.inst = c, !.kind = "Connection"]
             ELSE IF ~joinedOk
             THEN [NoGG EXCEPT !.st = "done", !.inst = c, !.kind = "WhatsApp"]
             ELSE [NoGG EXCEPT !.st = IF J = {} THEN "done" ELSE "loop",
                               !.kind = IF J = {} THEN "ok" ELSE "none",
                               !.inst = c, !.joined = J, !.todo = J]
  /\ ret' = NoRet
  /\ UNCHANGED <<mgrVars, cliVars, pc, arg, cur, cancelled, qch, qrStale,
                 load, delVars, semVars, msgVars, regVars>>

\* the group the loop of GetGroups is at: joinedGroups is gone through in order
CurrentGroup == CHOOSE g \in gg.todo : \A h \in gg.todo : g <= h

\* getGroupInfoWithRetry gives up after the attempt with i = maxRetries - 1
LastAttempt_First(i) == TRUE

LastAttempt(i) == i = maxRetries - 1

\* one GetGroupInfo call of getGroupInfoWithRetry and what follows it: return
\* on success; sleep i+1 seconds and try again; or the error after the last
\* attempt, which GetGroups logs before it goes on to the next group
GroupInfoAttempt(ok) ==
  /\ gg.st = "loop"
  /\ LET g == CurrentGroup
         over == ok \/ LastAttempt(gg.i)
         rest == gg.todo \ {g} IN
     gg' = [gg EXCEPT !.tries[g] = @ + 1,
                      !.okAt[g] = IF ok THEN gg.i + 1 ELSE @,
                      !.got = IF ok THEN @ \cup {g} ELSE @,
                      !.slept = IF over THEN @ ELSE @ + gg.i + 1,
                      !.i = IF over THEN 0 ELSE @ + 1,
                      !.todo = IF over THEN rest ELSE @,
                      !.st = IF over /\ rest = {} THEN "done" ELSE @,
                      !.kind = IF over /\ rest = {} THEN "ok" ELSE @]
  /\ ret' = NoRet
  /\ UNCHANGED <<mgrVars, cliVars, pc, arg, cur, cancelled, qch, qrStale,
                 load, delVars, semVars, msgVars, regVars>>

\* GetGroups has returned and its caller has the result
GetGroupsEnd ==
  /\ gg.st = "done"
  /\ gg' = NoGG
  /\ ret' = NoRet
  /\ UNCHANGED <<mgrVars, cliVars, pc, arg, cur, cancelled, qch, qrStale,
                 load, delVars, semVars, msgVars, regVars>>

\* one client that connects and disconnects, and the listing of its groups
NextGrp ==
  \/ \E c \in Insts, J \in SUBSET Groups : GetGroupsBegin(c, J)
  \/ \E ok \in BOOLEAN : GroupInfoAttempt(ok)
  \/ GetGroupsEnd
  \/ \E t \in Callers, i \in Insts : ClientConnect(t, i)
  \/ \E i \in Insts : LibConnected(i)
  \/ \E i \in Insts : LibDisconnected(i)

\* ------------------------------------------------------------ DeleteDevice
\* DeviceMongoRepository.Create: InsertOne of a record with status active; the
\* unique index on the name turns a second record of the name into Conflict
DeviceRepoCreate(t, n) ==
  /\ pc[t] = "idle" /\ ret = NoRet
  /\ IF recStatus[n] = "none"
     THEN /\ recStatus' = [recStatus EXCEPT ![n] = "active"]
          /\ ret' = [R(t, "DeviceRepoCreate", "ok") EXCEPT !.name = n]
     ELSE /\ ret' = [R(t, "DeviceRepoCreate", "Conflict") EXCEPT !.name = n]
          /\ UNCHANGED recStatus
  /\ UNCHANGED <<mgrVars, cliVars, pc, arg, cur, cancelled, qch, qrStale,
                 load, del, semVars, msgVars, grpVars, regVars>>

\* the ids a DeleteDevice call is given: the id of a record, or 0 for a string
\* that is no ObjectID
DeviceIds == Names \cup {0}

\* DeleteDeviceUseCase.Execute up to the return of FindByID: Validation for an
\* id that is no ObjectID, NotFound for no document, Database for any other
\* failure of the query; the status of the record is not looked at
DeleteFind(t, id) ==
  /\ pc[t] = "idle" /\ ret = NoRet
  /\ \E dbOk \in BOOLEAN :
       LET kind == IF id = 0 THEN "Validation"
                   ELSE IF ~dbOk THEN "Database"
                   ELSE IF recStatus[id] = "none" THEN "NotFound"
                   ELSE "ok" IN
       IF kind = "ok"
       THEN /\ pc' = [pc EXCEPT ![t] = "dd_remove"]
            /\ del' = [del EXCEPT ![t] = [id |-> id, removed |-> NoInst]]
            /\ ret' = NoRet
       ELSE /\ ret' = [R(t, "DeleteDevice", kind) EXCEPT !.name = id, !.msg = "find"]
            /\ UNCHANGED <<pc, del>>
  /\ UNCHANGED <<mgrVars, cliVars, arg, cur, cancelled, qch, qrStale,
                 load, recStatus, semVars, msgVars, grpVars, regVars>>

\* what Execute does with an error of RemoveClient: it logs a warning and goes
\* on to the repository
RemoveErrorAborts_Yes == TRUE

RemoveErrorAborts == FALSE

\* Execute's call of Manager.RemoveClient(device.Name), from Lock to the
\* deferred Unlock: NotFound for a name without a client; else Disconnect (its
\* error only logged), delete from the map, best-effort removal of the store
\* file. ret is what RemoveClient hands back to Execute.
DeleteRemove(t) ==
  /\ pc[t] = "dd_remove" /\ mu = 0
  /\ LET n == del[t].id
         i == clients[n] IN
     /\ IF i = NoInst
        THEN RemoveMissing(t, n)
        ELSE \E libPanics \in BOOLEAN, sockCloses \in BOOLEAN, rmOk \in BOOLEAN :
             /\ TearDown(IF libPanics THEN {} ELSE {i},
                         IF libPanics /\ sockCloses THEN {i} ELSE {})
             /\ clients' = [clients EXCEPT ![n] = NoInst]
             /\ storeFile' = [storeFile EXCEPT ![n] = IF rmOk THEN "none" ELSE @]
             /\ handed' = [handed EXCEPT ![n] = {}]
             /\ ret' = [R(t, "RemoveClient", "ok") EXCEPT
                          !.name = n, !.inst = i,
                          !.panics = IF libPanics THEN {i} ELSE {}]
     /\ IF i = NoInst /\ RemoveErrorAborts
        THEN /\ pc' = [pc EXCEPT ![t] = "idle"]
             /\ del' = [del EXCEPT ![t] = NoDel]
        ELSE /\ pc' = [pc EXCEPT ![t] = "dd_delete"]
             /\ del' = [del EXCEPT ![t].removed = i]
  /\ UNCHANGED <<mu, nextId, devName, hasID, latestQR, qrMu, qrSeq, disp,
                 arg, cur, cancelled, qch, qrStale, load, recStatus, semVars, msgVars, grpVars, regVars>>

\* the status DeviceMongoRepository.Delete leaves on the record: UpdateOne
\* with $set status = DeviceStatusDeleted; no document is taken out
StatusAfterDelete_Purged == "none"

StatusAfterDelete == "deleted"

\* Execute's call of deviceRepo.Delete and its return: Database for a failed
\* update, NotFound when no document matched, else the record is marked
DeleteRepo(t) ==
  /\ pc[t] = "dd_delete"
  /\ \E dbOk \in BOOLEAN :
       LET id == del[t].id
           kind == IF ~dbOk THEN "Database"
                   ELSE IF recStatus[id] = "none" THEN "NotFound"
                   ELSE "ok" IN
       /\ recStatus' = [recStatus EXCEPT ![id] = IF kind = "ok"
                                                 THEN StatusAfterDelete ELSE @]
       /\ ret' = [R(t, "DeleteDevice", kind) EXCEPT
                    !.name = id, !.inst = del[t].removed, !.msg = "delete"]
  /\ pc' = [pc EXCEPT ![t] = "idle"]
  /\ del' = [del EXCEPT ![t] = NoDel]
  /\ UNCHANGED <<mgrVars, cliVars, arg, cur, cancelled, qch, qrStale,
                 load, semVars, msgVars, grpVars, regVars>>

\* devices registered, given a client, connected and deleted; the result of
\* one call is followed at a time
NextDel ==
  \/ \E t \in Callers, n \in Names : DeviceRepoCreate(t, n)
  \/ \E t \in Callers, id \in DeviceIds : DeleteFind(t, id)
  \/ \E t \in Callers : DeleteRemove(t)
  \/ \E t \in Callers : DeleteRepo(t)
  \/ \E t \in Callers, n \in Names : ret = NoRet /\ CreateClientLock(t, n)
  \/ \E t \in Callers : CreateClientBody(t)
  \/ \E t \in Callers, i \in Insts : ret = NoRet /\ ClientConnect(t, i)
  \/ ResultTaken

\* -------------------------------------------------------------------- Next
\* lifecycle of the clients, shared by both views of the system
Lifecycle ==
  \/ \E t \in Callers, i \in Insts : ClientConnect(t, i)
  \/ \E t \in Callers, i \in Insts : ClientDisconnect(t, i)
  \/ \E i \in Insts : LibConnected(i)
  \/ \E i \in Insts : LibDisconnected(i)

\* the Session Manager at startup: the scan of the stores directory, with
\* devices created and removed meanwhile
NextLoad ==
  \/ \E t \in Callers : LoadStart(t)
  \/ \E t \in Callers : LoadStep(t)
  \/ \E t \in Callers : LoadEnd(t)
  \/ \E t \in Callers, n \in Names : CreateClientLock(t, n)
  \/ \E t \in Callers : CreateClientBody(t)
  \/ \E t \in Callers, n \in Names : RemoveClientLock(t, n)
  \/ \E t \in Callers : RemoveClientBody(t)

\* the Session Manager and the clients it creates, connects and tears down
NextMgr ==
  \/ \E t \in Callers, n \in Names : CreateClientLock(t, n)
  \/ \E t \in Callers : CreateClientBody(t)
  \/ \E t \in Callers, n \in Names : RemoveClientLock(t, n)
  \/ \E t \in Callers : RemoveClientBody(t)
  \/ \E t \in Callers : DisconnectAllLock(t)
  \/ \E t \in Callers : DisconnectAllBody(t)
  \/ Lifecycle

\* one Device Client, its callers and the library's events
NextQR ==
  \/ \E t \in Callers, i \in Insts : GetQRCodeCall(t, i)
  \/ \E t \in Callers : CancelCtx(t)
  \/ \E t \in Callers : QRLockAndCheck(t)
  \/ \E t \in Callers : QRGetChannel(t)
  \/ \E t \in Callers : QRRecv(t)
  \/ \E t \in Callers : QRTimeout(t)
  \/ \E t \in Callers : QRCtxDone(t)
  \/ \E t \in Callers : QRChanClose(t)
  \/ \E i \in Insts, len \in 1..MaxCodes : LibQR(i, len)
  \/ \E i \in Insts : LibPairSuccess(i)
  \/ \E i \in Insts : DispatchClient(i)
  \/ \E i \in Insts : DispatchChan(i)
  \/ \E i \in Insts : QRValidityEnds(i)
  \/ Lifecycle

\* one Device Client with its pairing calls and the library's events, together
\* with the calls that tear its connection down
NextLock ==
  \/ NextQR
  \/ Lifecycle
  \/ \E t \in Callers : DisconnectAllLock(t)
  \/ \E t \in Callers : DisconnectAllBody(t)

Next ==
  \/ NextMgr \/ NextQR \/ NextReg \/ NextCli \/ NextLoad \/ NextDel \/ NextSem
  \/ NextMsg \/ NextGrp \/ NextLock

\* the manager right after CreateClient(1) on a fresh process: one client,
\* paired or not according to the session file found on disk
ClientInit ==
  /\ clients = [n \in Names |-> IF n = 1 THEN 1 ELSE NoInst]
  /\ mu = 0
  /\ nextId = 2
  /\ storeFile \in {[n \in Names |-> IF n = 1 THEN f ELSE "none"] : f \in {"unpaired", "paired"}}
  /\ devName = [i \in Insts |-> IF i = 1 THEN 1 ELSE 0]
  /\ isConnected = [i \in Insts |-> FALSE]
  /\ sockOpen = [i \in Insts |-> FALSE]
  /\ hasID = [i \in Insts |-> i = 1 /\ storeFile[1] = "paired"]
  /\ latestQR = [i \in Insts |-> NoCode]
  /\ qrMu = [i \in Insts |-> 0]
  /\ ctxDone = [i \in Insts |-> FALSE]
  /\ qrSeq = [i \in Insts |-> 0]
  /\ disp = [i \in Insts |-> DispIdle]
  /\ pc = [t \in Callers |-> "idle"]
  /\ arg = [t \in Callers |-> 0]
  /\ cur = [t \in Callers |-> NoInst]
  /\ cancelled = [t \in Callers |-> FALSE]
  /\ qch = [t \in Callers |-> NilChan]
  /\ ret = NoRet
  /\ handed = [n \in Names |-> IF n = 1 THEN {1} ELSE {}]
  /\ streak = [i \in Insts |-> 0]

InitQR == ClientInit /\ ExtInit

\* one client, made with any of the configured limits
InitSem ==
  /\ ClientInit /\ ExtBase
  /\ maxConc \in (0..MaxConfigured) \cup {EnvDefaultConcurrency}

\* a first start: the stores directory holds no session file yet
InitDel == Init /\ storeFile = [n \in Names |-> "none"]

Spec == Init /\ [][Next]_vars
SpecMgr == Init /\ [][NextMgr]_vars
SpecLoad == Init /\ [][NextLoad]_vars
SpecDel == InitDel /\ [][NextDel]_vars
SpecSem == InitSem /\ [][NextSem]_vars
SpecMsg == InitSem /\ [][NextMsg]_vars
SpecGrp == InitQR /\ [][NextGrp]_vars
SpecLock == InitQR /\ [][NextLock]_vars

\* SpecGrp with a library whose GetGroupInfo returns and a Sleep that ends
FairSpecGrp == SpecGrp /\ WF_vars(\E ok \in BOOLEAN : GroupInfoAttempt(ok))

\* SpecMsg with goroutines that run: a goroutine blocked at c.sem <- is queued
\* in the channel and gets a place when one is free, and OnMessage returns
FairSpecMsg ==
  /\ SpecMsg
  /\ \A m \in Msgs : SF_vars(MsgAcquire(m)) /\ WF_vars(MsgDone(m))
SpecQR == InitQR /\ [][NextQR]_vars
SpecCli == InitQR /\ [][NextCli]_vars

\* SpecQR with the scheduling the runtime gives: a goroutine that can run does
\* run, time.After fires, a waiter of sync.Mutex gets the lock in the end
\* (starvation mode), the library's dispatcher goes on when its handler can
FairSpecQR ==
  /\ SpecQR
  /\ \A t \in Callers :
       /\ SF_vars(QRLockAndCheck(t))
       /\ WF_vars(QRGetChannel(t))
       /\ WF_vars(QRRecv(t))
       /\ WF_vars(QRTimeout(t))
  /\ \A i \in Insts :
       /\ WF_vars(DispatchClient(i))
       /\ WF_vars(DispatchChan(i))

TypeOK ==
  /\ clients \in [Names -> Insts \cup {NoInst}]
  /\ mu \in Callers \cup {0}
  /\ \A t \in Callers : pc[t] \in {"idle", "cc_body", "rm_body", "da_body", "ld_loop",
                                   "dd_remove", "dd_delete"} \cup QRpcs
  /\ recStatus \in [Names -> {"none", "active", "inactive", "deleted"}]
  /\ maxConc \in Nat
  /\ \A i \in Insts : semWait[i] \in Nat /\ sem[i] \in Nat /\ running[i] \in Nat

\* ================================================================ claims

\* ---- C1: for every device name, all CreateClient calls made with no
\* RemoveClient of that name in between hand out one and the same client
\* instance, the live-client count grows by one for the name, and the manager
\* never holds more than one live client for a name.
C1_CreateClientIdempotent ==
  /\ \A n \in Names :
       /\ Cardinality(handed[n]) <= 1
       /\ handed[n] = IF clients[n] = NoInst THEN {} ELSE {clients[n]}
  /\ GetClientCount = Cardinality({n \in Names : handed[n] # {}})
  /\ ret.op = "CreateClient" /\ ret.kind = "ok" => ret.inst = GetClient(ret.name)

\* a second CreateClient of a name came back with the client already there
C1_Witness ==
  /\ ret.op = "CreateClient" /\ ret.kind = "ok" /\ ret.msg = "exists"
  /\ handed[ret.name] = {ret.inst}
  /\ GetClientCount = 1

\* ---- C2: RemoveClient of a name that is in the map returns success with the
\* name gone from ListClients(), also when the library panics in the teardown.
C2_RemoveClientRemoves ==
  [][\A t \in Callers :
       (pc[t] = "rm_body" /\ pc'[t] = "idle" /\ clients[arg[t]] # NoInst)
         => /\ ret'.op = "RemoveClient" /\ ret'.by = t /\ ret'.kind = "ok"
            /\ arg[t] \notin ListClients']_vars

\* RemoveClient succeeded although the teardown of its client panicked
C2_Witness ==
  /\ ret.op = "RemoveClient" /\ ret.kind = "ok"
  /\ ret.panics = {ret.inst}
  /\ ret.name \notin ListClients

\* ---- C3: RemoveClient of a name that is not in the map returns NotFound and
\* changes neither the map, nor any client, nor any session file.
C3_RemoveUnknownNotFound ==
  [][\A t \in Callers :
       (pc[t] = "rm_body" /\ pc'[t] = "idle" /\ clients[arg[t]] = NoInst)
         => /\ ret'.op = "RemoveClient" /\ ret'.kind = "NotFound"
            /\ clients' = clients
            /\ storeFile' = storeFile
            /\ <<sockOpen, ctxDone, isConnected>>' = <<sockOpen, ctxDone, isConnected>>]_vars

\* NotFound came back while another device was in the map with a session file
C3_Witness ==
  /\ ret.op = "RemoveClient" /\ ret.kind = "NotFound"
  /\ storeFile[ret.name] # "none"
  /\ ListClients # {}

\* ---- C4 as stated: after DisconnectAll over several devices, one of which
\* panicked in its teardown, the others are disconnected, the result is success
\* (or an error naming only the failing device) and the device map is empty.
C4_Original ==
  [][\A t \in Callers :
       (/\ pc[t] = "da_body" /\ pc'[t] = "idle"
        /\ Cardinality(ListClients) >= 2 /\ Cardinality(ret'.panics) = 1)
         => /\ \A n \in ListClients :
                 clients[n] \notin ret'.panics =>
                   ~sockOpen'[clients[n]] /\ ~isConnected'[clients[n]]
            /\ ret'.op = "DisconnectAll" /\ ret'.kind \in {"ok", "Internal"}
            /\ ListClients' = {}]_vars

\* ---- C4 amended: after DisconnectAll returns, whatever teardowns panicked,
\* every other device has been disconnected (socket closed, context cancelled,
\* flag cleared) and the result is success; the device map is left as it was:
\* DisconnectAll deletes no entry.
C4_DisconnectAllKeepsMap ==
  [][\A t \in Callers :
       (pc[t] = "da_body" /\ pc'[t] = "idle")
         => /\ ret'.op = "DisconnectAll" /\ ret'.by = t /\ ret'.kind = "ok"
            /\ \A n \in ListClients :
                 clients[n] \notin ret'.panics =>
                   /\ ~sockOpen'[clients[n]]
                   /\ ~isConnected'[clients[n]]
                   /\ ctxDone'[clients[n]]
            /\ clients' = clients]_vars

\* DisconnectAll returned over two devices, one of them panicking with its
\* socket still open
C4_Witness ==
  /\ ret.op = "DisconnectAll" /\ ret.kind = "ok"
  /\ Cardinality(ListClients) >= 2 /\ Cardinality(ret.panics) = 1
  /\ \E i \in ret.panics : sockOpen[i]

\* ---- C5: Client.Disconnect returns nil to its caller, on a client already
\* disconnected as well, and a panic of the library's teardown never leaves it:
\* no call of the manager or of a client ends in a panic, and a Disconnect
\* touches no other client.
C5_DisconnectAlwaysNil ==
  [][/\ ret'.kind # "panic"
     /\ ret'.op = "Disconnect" =>
          /\ ret'.kind = "ok"
          /\ \A j \in Insts \ {ret'.inst} :
               <<sockOpen[j], isConnected[j], ctxDone[j]>>' =
               <<sockOpen[j], isConnected[j], ctxDone[j]>>]_vars

\* Disconnect returned nil on a client that was already torn down, the library
\* having panicked this time
C5_Witness ==
  /\ ret.op = "Disconnect" /\ ret.kind = "ok"
  /\ ret.panics = {ret.inst}
  /\ ctxDone[ret.inst] /\ ~sockOpen[ret.inst]

\* ---- C6: GetQRCode on a client that is paired and has an open connection
\* when the call checks it ends with a Conflict error and hands back no code,
\* whether or not a code is cached in latestQR.
C6_ConnectedGetsConflict ==
  [][\A t \in Callers :
       (/\ pc[t] = "qr_lock" /\ pc'[t] # "qr_lock"
        /\ hasID[cur[t]] /\ sockOpen[cur[t]])
         => /\ pc'[t] = "idle"
            /\ ret'.op = "GetQRCode" /\ ret'.by = t
            /\ ret'.kind = "Conflict" /\ ret'.code = NoCode]_vars

\* Conflict came back from a connected client that has a code in its cache
C6_Witness ==
  /\ ret.op = "GetQRCode" /\ ret.kind = "Conflict"
  /\ hasID[ret.inst] /\ sockOpen[ret.inst]
  /\ latestQR[ret.inst] # NoCode

\* ---- C7: as long as the library issues no QR event, every GetQRCode call in
\* progress comes back; and a call that is not cancelled and leaves its wait
\* with nothing on the QR channel leaves it through the 30-second timeout, with
\* an error of kind WhatsApp.
C7_ReturnsAtTimeout ==
  /\ \A t \in Callers :
       (pc[t] \in QRpcs) ~> (pc[t] = "idle" \/ \E i \in Insts : qrSeq[i] > 0)
  /\ [][\A t \in Callers :
          (/\ pc[t] = "qr_wait" /\ pc'[t] = "idle"
           /\ ~cancelled[t] /\ qch[t].st \in {"nil", "open"})
            => /\ ret'.op = "GetQRCode" /\ ret'.by = t
               /\ ret'.kind = "WhatsApp" /\ ret'.msg = "timeout"]_vars

\* an uncancelled call timed out on a client that never got a QR event
C7_Witness ==
  /\ ret.op = "GetQRCode" /\ ret.kind = "WhatsApp" /\ ret.msg = "timeout"
  /\ qrSeq[ret.inst] = 0
  /\ \A t \in Callers : ~cancelled[t]

\* ---- C8: a GetQRCode call in progress whose context is cancelled is never
\* held up by somebody else's wait: not behind c.qrMu held by another GetQRCode
\* call that is waiting for its QR event or timeout, and not behind the
\* library's dispatcher.
C8_CancelReturnsPromptly ==
  \A t \in Callers :
    (cancelled[t] /\ pc[t] \in QRpcs) =>
      /\ pc[t] = "qr_lock" =>
           (qrMu[cur[t]] = 0 \/ pc[qrMu[cur[t]]] # "qr_wait")
      /\ pc[t] = "qr_chan" =>
           (sockOpen[cur[t]] \/ hasID[cur[t]] \/ disp[cur[t]].stage = "idle")

\* ---- C9: no GetQRCode call ends in the timeout error while a QR event the
\* library issued during its wait is on its way through the dispatcher.
C9_WaitingCallGetsCode ==
  ~(/\ ret.op = "GetQRCode" /\ ret.msg = "timeout"
    /\ disp[ret.inst].evt = "QR")

\* ---- C11: GetQRCode hands back a code only while the code is within its
\* validity: no call returns a code that was issued longer ago than that.
C11_CachedCodeStillValid ==
  (ret.op = "GetQRCode" /\ ret.kind = "ok") => ~qrStale[ret.inst]

\* ---- C10: a code handed back by GetQRCode is the one in latestQR, and a
\* GetQRCode call on an unpaired client whose previous operation was a
\* GetQRCode call that returned a code returns the code in latestQR, leaves
\* latestQR as it is, opens no QR channel and does not touch the connection.
C10_SecondCallFromCache ==
  /\ [](/\ (ret.op = "GetQRCode" /\ ret.kind = "ok") =>
             (ret.code # NoCode /\ ret.code = latestQR[ret.inst])
        /\ \A i \in Insts : streak[i] >= 1 => latestQR[i] # NoCode)
  /\ [][\A t \in Callers :
          (/\ pc[t] = "qr_lock" /\ pc'[t] # "qr_lock"
           /\ streak[cur[t]] >= 1 /\ ~hasID[cur[t]])
            => /\ pc'[t] = "idle"
               /\ ret'.op = "GetQRCode" /\ ret'.by = t /\ ret'.kind = "ok"
               /\ ret'.code = latestQR[cur[t]]
               /\ ret'.timeout = QRTimeoutSecs
               /\ <<latestQR, sockOpen, qrSeq, disp, qch>>' =
                  <<latestQR, sockOpen, qrSeq, disp, qch>>]_vars

\* two GetQRCode calls in a row came back with the code of an unpaired client
C10_Witness ==
  /\ ret.op = "GetQRCode" /\ ret.kind = "ok"
  /\ streak[ret.inst] = 2 /\ ~hasID[ret.inst]
  /\ ret.code = latestQR[ret.inst]

\* ---- C12: after every Register, in whatever order the processors were
\* registered, r.processors is in descending order of priority (no processor
\* stands before one of higher priority), holds exactly the registered
\* processors, and GetProcessors() returns that list in that order.
C12_SortedByPriority ==
  /\ \A a, b \in 1..Len(processors) :
       a < b => prio[processors[a]] >= prio[processors[b]]
  /\ Range(processors) = registered /\ Len(processors) = Cardinality(registered)
  /\ GetProcessors = processors
  /\ GetProcessorCount = Cardinality(registered)

\* three processors of three different priorities, the one registered last
\* not being the lowest: Register moved it forward
C12_Witness ==
  /\ Len(GetProcessors) = 3 /\ moved
  /\ prio[processors[1]] > prio[processors[2]]
  /\ prio[processors[2]] > prio[processors[3]]

\* ---- C13: Process invokes exactly once every registered processor that
\* claims the message and no other, in descending order of priority, going on
\* after a failure, and returns the error of the first invoked processor that
\* failed, or nil when none failed.
C13_ProcessRunsAll ==
  procIn.called =>
    /\ Range(procLog) = procIn.can \cap Range(processors)
    /\ Len(procLog) = Cardinality(procIn.can \cap Range(processors))
    /\ \A a, b \in 1..Len(procLog) : a < b => prio[procLog[a]] >= prio[procLog[b]]
    /\ IF \E k \in 1..Len(procLog) : procLog[k] \in procIn.fail
       THEN \E k \in 1..Len(procLog) :
              /\ procLog[k] = procRet
              /\ procRet \in procIn.fail
              /\ \A m \in 1..(k - 1) : procLog[m] \notin procIn.fail
       ELSE procRet = 0

\* two processors claimed the message, the first failed, the second ran and
\* succeeded, and the first one's error came back
C13_Witness ==
  /\ procIn.called /\ Len(procLog) = 2
  /\ procLog[1] \in procIn.fail /\ procLog[2] \notin procIn.fail
  /\ procRet = procLog[1]

\* the well-formed recipient identifiers: digits@s.whatsapp.net and
\* digits-digits@g.us
DigitRuns == {[k \in 1..n |-> "d"] : n \in 1..MaxJidLen}

WellFormedJIDs ==
  {a \o <<"@s">> : a \in DigitRuns}
    \cup {a \o <<"-">> \o b \o <<"@g">> : a \in DigitRuns, b \in DigitRuns}

\* ---- C14: sending a message to a recipient identifier that is not
\* well-formed ends with a Validation error, and no call to the protocol
\* library (no typing indicator, no SendMessage) has been made.
C14_MalformedRecipientRejected ==
  (ret.op = "SendMessage" /\ ret.to \notin WellFormedJIDs) =>
    (ret.kind = "Validation" /\ ret.lib = <<>>)

\* a text message with typing indicator to "not-a-jid" on a connected device
\* came back with Validation
C14_Witness ==
  /\ ret.op = "SendMessage" /\ ret.kind = "Validation" /\ ret.lib = <<>>
  /\ ret.to = <<"x">> /\ ret.msg = "typing"
  /\ ret.inst # NoInst /\ isConnected[ret.inst] /\ sockOpen[ret.inst]

\* ---- C15: each of SendTextMessage, SendFileMessage, GetContacts, GetGroups,
\* SetPresence and SendTyping called on a client whose IsConnected() is false
\* ends with a Connection error and makes no call to the protocol library.
C15_DisconnectedOpsFail ==
  (ret.op \in ClientOps /\ ~(isConnected[ret.inst] /\ sockOpen[ret.inst])) =>
    (ret.kind = "Connection" /\ ret.lib = <<>>)

\* ---- C16: Client.Connect on a client whose protocol connection is open ends
\* with Conflict and opens no connection, and ConnectDevice on a device whose
\* connection is open ends with Conflict as well, in every such state.
C16_ConnectWhenOpenIsConflict ==
  [][/\ (ret'.op = "Connect" /\ sockOpen[ret'.inst]) =>
          (ret'.kind = "Conflict" /\ sockOpen' = sockOpen)
     /\ (ret'.op = "ConnectDevice" /\ ret'.inst # NoInst /\ sockOpen[ret'.inst]) =>
          (ret'.kind = "Conflict" /\ ret'.lib = <<>> /\ sockOpen' = sockOpen)]_vars

\* ---- C17: a LoadExistingDevices call that got the list of store files
\* returns success whatever subset of the files failed to load; it has called
\* CreateClient for every file of the list, and every call that did not fail
\* left a client for that device in the map.
C17_LoadIsolatesFailures ==
  /\ []((ret.op = "LoadExistingDevices" /\ ret.msg # "dir") =>
          /\ ret.kind = "ok"
          /\ ret.made \cup ret.failed = ret.files
          /\ ret.made \cap ret.failed = {})
  /\ [][\A t \in Callers : \A n \in Names :
          (pc[t] = "ld_loop" /\ n \in load'[t].made \ load[t].made)
            => /\ clients'[n] # NoInst
               /\ devName'[clients'[n]] = n]_vars

\* the scan found two files, the first failed to load and the second got its
\* client
C17_Witness ==
  /\ ret.op = "LoadExistingDevices" /\ ret.kind = "ok"
  /\ \E f \in ret.failed : \E m \in ret.made : f < m /\ clients[m] # NoInst

\* ---- C18: whatever an operation of a client or of the manager hands back,
\* in every outcome, is success or an error of one of the kinds of the
\* taxonomy; none hands back a bare error (and none lets a panic out).
C18_OnlyTaxonomyKinds ==
  ret.kind \in {"none", "ok"} \cup ErrorKinds

C20_HandlersWithinLimit ==
  \A i \in Insts :
    /\ running[i] <= SemCapacity
    /\ maxConc = 0 => running[i] <= DefaultMaxConcurrency
    /\ sem[i] = running[i]
    /\ running[i] = 0 => sem[i] = 0

\* the limit is reached with a further message waiting, under the default
C20_Witness ==
  \E i \in Insts :
    /\ maxConc = 0
    /\ running[i] = SemCapacity /\ semWait[i] > 0

\* C21: the semaphore bounds the goroutines of handleMessage: the goroutines of
\* one client that exist at the same time, waiting at c.sem <- or running
\* OnMessage, are never more than the places of the client's semaphore.
C21_GoroutinesBounded ==
  \A i \in Insts : semWait[i] + running[i] <= SemCapacity

\* C22: message processing never blocks the library's callback thread: a
\* connected client whose dispatcher is free takes the next Message event, and
\* handleMessage returns, whatever the number of messages waiting for a slot
\* or in OnMessage.
C22_CallbackNeverBlocked ==
  \A i \in Insts :
    Live(i) /\ sockOpen[i] /\ disp[i].stage = "idle"
      /\ semWait[i] + running[i] < MaxMsgs
    => ENABLED LibMessage(i, FALSE, TRUE)

\* every place of the semaphore is taken and two more messages have been
\* handed over since
C22_Witness ==
  \E i \in Insts : running[i] = SemCapacity /\ sem[i] = SemCapacity /\ semWait[i] >= 2

\* the OnMessage calls made for message m
CallsOf(m) == {k \in 1..Len(onMessage) : onMessage[k][2] = m}

\* C23: a Message event of the account itself or without text never gets an
\* OnMessage call; every other Message event gets at most one call, for the
\* device of its client, and (handlers returning) does get it in the end.
C23_OneCallPerMessage ==
  /\ [](\A m \in Msgs :
          /\ msgSt[m].st # "none" /\ (msgSt[m].fromMe \/ ~msgSt[m].hasText)
               => CallsOf(m) = {}
          /\ Cardinality(CallsOf(m)) <= 1
          /\ \A k \in CallsOf(m) : onMessage[k][1] = devName[msgSt[m].inst]
          /\ msgSt[m].st \in {"running", "done"} => CallsOf(m) # {})
  /\ \A m \in Msgs :
       (msgSt[m].st # "none" /\ ~msgSt[m].fromMe /\ msgSt[m].hasText)
         ~> (CallsOf(m) # {})

\* two messages with text were handled in the reverse of their arrival order,
\* and a third one was skipped
C23_Witness ==
  /\ \E k \in 1..Len(onMessage) : \E l \in 1..Len(onMessage) :
       k < l /\ onMessage[k][2] > onMessage[l][2]
  /\ \E m \in Msgs : msgSt[m].st = "returned"

\* C24: GetGroups tries the metadata of every joined group at least once and
\* at most 3 times and stops at the first success; a group whose 3 attempts
\* all failed is left out, every group whose fetch succeeded is returned, and
\* the listing ends, with success.
C24_GroupRetryBounded ==
  /\ [](/\ \A g \in Groups : gg.tries[g] <= 3
        /\ gg.got \subseteq gg.joined
        /\ gg.st = "done" /\ gg.kind = "ok" =>
             \A g \in gg.joined :
               /\ gg.tries[g] >= 1
               /\ g \in gg.got <=> gg.okAt[g] # 0
               /\ g \in gg.got => gg.tries[g] = gg.okAt[g]
               /\ g \notin gg.got => gg.tries[g] = 3)
  /\ (gg.st = "loop") ~> (gg.st = "done" /\ gg.kind = "ok")

\* a listing has ended with one group got at its third attempt and another
\* left out
C24_Witness ==
  /\ gg.st = "done" /\ gg.kind = "ok"
  /\ \E g \in gg.joined : g \in gg.got /\ gg.tries[g] = 3
  /\ \E g \in gg.joined : g \notin gg.got

\* C25: the status of a client follows Disconnected -> Connecting -> Connected
\* <-> Disconnected, with Failed from Connecting: it is connecting while a
\* connection has been opened and no Connected event has come, connected only
\* after a Connected event, and failed once the client's Connect has failed.
C25_StatusFollowsMachine ==
  \A i \in Insts : Live(i) =>
    /\ sockOpen[i] /\ ~isConnected[i] => GetConnectionStatus(i) = "connecting"
    /\ GetConnectionStatus(i) = "connected" => isConnected[i]
    /\ ret.op = "Connect" /\ ret.kind = "Connection" /\ ret.inst = i
         => GetConnectionStatus(i) = "failed"

\* C26: CreateClient does not hold the manager's lock while it constructs the
\* client: whenever a caller is in the body of CreateClient, where NewClient
\* runs, the lock is free or with another caller, so that GetClient,
\* ListClients and CreateClient of other names can go on.
C26_ConstructionOutsideLock ==
  \A t \in Callers : pc[t] = "cc_body" => mu # t

\* C27: whenever Client.Disconnect has returned, also after a panic of the
\* library's teardown that it recovered from, the client's isConnected flag is
\* false and the client's context is cancelled.
C27_DisconnectResetsState ==
  ret.op = "Disconnect" => ~isConnected[ret.inst] /\ ctxDone[ret.inst]

\* C28: whenever DisconnectDevice returns success for a device the manager
\* knows, the device's connection to the protocol servers is closed, also when
\* it was opened and no Connected event has come yet.
C28_DisconnectDeviceCloses ==
  ret.op = "DisconnectDevice" /\ ret.kind = "ok" => ~sockOpen[ret.inst]

\* C29: ConnectDevice and SendMessage hand a failure of the Device Client on
\* with the kind the client gave it: whenever the client operation behind a
\* use case failed, the use case's error has the same kind.
C29_ClientKindKept ==
  ret.op \in {"ConnectDevice", "SendMessage"} /\ ret.client \notin {"none", "ok"}
    => ret.kind = ret.client

\* C30: no operation waits for a lock for ever: whenever the library's
\* dispatcher waits in handleQRCode for c.qrMu, the GetQRCode call that holds
\* c.qrMu is not itself waiting for the dispatcher, so the holder goes on and
\* the lock comes free.
C30_NoLockCycle ==
  \A i \in Insts : \A t \in Callers :
    disp[i].stage = "client" /\ disp[i].evt = "QR" /\ qrMu[i] = t
      => ~(pc[t] = "qr_chan" /\ ~sockOpen[i] /\ ~hasID[i])

====
